---- MODULE Spec2Model ----
(***************************************************************************)
(* A model of the graph runtime of src/tvm/src/runtime/graph/              *)
(* graph_runtime.cc: construction (Load, SetupStorage, SetupOpExecs), the  *)
(* packed functions set_input, get_input, get_output, get_input_names,     *)
(* get_output_names, run, load_params, and the destructor.                 *)
(*                                                                         *)
(* Vectors of the source are sequences; the source's 0-based index i is    *)
(* position i+1 (operator At).  Device memory is a map from buffer handle  *)
(* to a sequence of bytes; a DLTensor view is a record naming the handle   *)
(* of the buffer it points into, with its own ndim, shape and dtype.       *)
(***************************************************************************)
EXTENDS Integers, Sequences, FiniteSets, TLC

VARIABLES
    graph_json,     \* the decoded graph description handed to the factory
    phase,          \* "new" | "ready" | "failed" | "crashed" | "destroyed"
    storage_pool_,  \* sequence of buffer handles (DLTensor*), in pool order
    data_entry_,    \* sequence of per-entry views
    op_execs_,      \* sequence of closures, one slot per node
    mem,            \* device memory: handle -> sequence of bytes
    freed,          \* handle -> number of TVMArrayFree calls on it
    ub,             \* TRUE once an out-of-range vector read has happened
    last            \* what the last operation did and returned to its caller

vars == <<graph_json, phase, storage_pool_, data_entry_, op_execs_, mem,
          freed, ub, last>>

(***************************************************************************)
(* Bounds of the model.                                                    *)
(***************************************************************************)
MaxSid == 1     \* storage ids of a plan range over 0..MaxSid
MaxVal == 1     \* a byte holds a value in 0..MaxVal
MaxBlob == 2    \* tensors in a parameter blob

Vals == 0..MaxVal

At(s, i) == s[i + 1]

InRange(s, i) == i >= 0 /\ i < Len(s)

Max2(a, b) == IF a >= b THEN a ELSE b

RECURSIVE Product(_)
Product(shape) ==
    IF shape = <<>> THEN 1 ELSE Head(shape) * Product(Tail(shape))

Fill(n, v) == [k \in 1..n |-> v]

(***************************************************************************)
(* Collaborators outside graph_runtime.cc.                                 *)
(***************************************************************************)
\* String2TVMType: the textual dtype tag decoded to {code, bits, lanes}.
String2TVMType(s) ==
    CASE s = "float32" -> [code |-> 2, bits |-> 32, lanes |-> 1]
      [] s = "int8"    -> [code |-> 0, bits |-> 8,  lanes |-> 1]
      [] s = "uint1"   -> [code |-> 1, bits |-> 1,  lanes |-> 1]

\* The kernels the code module exposes by name.
ModuleFuncs == {"inc"}

\* module_.GetFunction(name, false) != nullptr
ModuleHas(name) == name \in ModuleFuncs

(***************************************************************************)
(* Views.                                                                  *)
(***************************************************************************)
\* GetDataSize: the byte size of a view.
GetDataSize(arr) ==
    Product(arr.shape) * ((arr.dtype.bits * arr.dtype.lanes + 7) \div 8)

\* The bytes a view covers: the first GetDataSize bytes of its buffer.  (A
\* view of a constructed executor never exceeds its buffer; a position past
\* the end of the buffer is no modelled memory and reads as 0.)
ViewBytes(m, arr) ==
    [k \in 1..GetDataSize(arr) |->
        IF k <= Len(m[arr.data]) THEN m[arr.data][k] ELSE 0]

\* The view read by an out-of-range data_entry_[eid]: it points at no buffer
\* of the pool.
WildView == [data |-> 0, ndim |-> 0, shape |-> <<>>,
             dtype |-> [code |-> 0, bits |-> 0, lanes |-> 0]]

(***************************************************************************)
(* Graph descriptions: the inputs of the factory.                          *)
(***************************************************************************)
NullNode(name) ==
    [op_type |-> "null", name |-> name, inputs |-> <<>>,
     param |-> [func_name |-> "", num_inputs |-> 0, num_outputs |-> 0,
                flatten_data |-> 0]]

OpNode(name, func, ins, nout, flat) ==
    [op_type |-> "tvm_op", name |-> name, inputs |-> ins,
     param |-> [func_name |-> func, num_inputs |-> Len(ins),
                num_outputs |-> nout, flatten_data |-> flat]]

Entry(nid, idx) == [node_id |-> nid, index |-> idx, version |-> 0]

AllKeys == {"nodes", "arg_nodes", "node_row_ptr", "heads", "attrs"}

\* (dltype, shape) pairs a plan may give an entry.
I8x2 == [dltype |-> "int8", shape |-> <<2>>]
F32s == [dltype |-> "float32", shape |-> <<>>]
F32x0 == [dltype |-> "float32", shape |-> <<0>>]
I8x1x2 == [dltype |-> "int8", shape |-> <<1, 2>>]
U1x2 == [dltype |-> "uint1", shape |-> <<2>>]

Topology(nodes, args, rowptr, heads, tmpls) ==
    [nodes |-> nodes, arg_nodes |-> args, node_row_ptr |-> rowptr,
     heads |-> heads, tmpls |-> tmpls]

Topologies ==
    { \* S1: one input, one __nop node
      Topology(<<NullNode("a"), OpNode("y", "__nop", <<Entry(0, 0)>>, 1, 0)>>,
               <<0>>, <<0, 1, 2>>, <<Entry(1, 0)>>, {I8x2, F32s, F32x0}),
      \* one input, one kernel, with and without flatten_data
      Topology(<<NullNode("a"), OpNode("y", "inc", <<Entry(0, 0)>>, 1, 0)>>,
               <<0>>, <<0, 1, 2>>, <<Entry(1, 0)>>, {I8x2, F32s, F32x0, I8x1x2}),
      Topology(<<NullNode("a"), OpNode("y", "inc", <<Entry(0, 0)>>, 1, 1)>>,
               <<0>>, <<0, 1, 2>>, <<Entry(1, 0)>>, {I8x2, I8x1x2}),
      \* two inputs, one kernel
      Topology(<<NullNode("a"), NullNode("b"),
                 OpNode("y", "inc", <<Entry(0, 0), Entry(1, 0)>>, 1, 0)>>,
               <<0, 1>>, <<0, 1, 2, 3>>, <<Entry(2, 0)>>, {I8x2, F32s}),
      \* a kernel without outputs placed before the input node
      Topology(<<OpNode("k", "inc", <<>>, 0, 0), NullNode("a")>>,
               <<1>>, <<0, 0, 1>>, <<Entry(1, 0)>>, {I8x2, F32s}),
      \* a kernel with two outputs placed before the input node
      Topology(<<OpNode("k", "inc", <<>>, 2, 0), NullNode("a")>>,
               <<1>>, <<0, 2, 3>>, <<Entry(0, 1), Entry(1, 0)>>, {I8x2}),
      \* S2: a chain of two kernels
      Topology(<<NullNode("a"), OpNode("y", "inc", <<Entry(0, 0)>>, 1, 0),
                 OpNode("z", "inc", <<Entry(1, 0)>>, 1, 0)>>,
               <<0>>, <<0, 1, 2, 3>>, <<Entry(2, 0)>>, {I8x2}),
      \* the chain with flatten_data set on its first kernel only
      Topology(<<NullNode("a"), OpNode("y", "inc", <<Entry(0, 0)>>, 1, 1),
                 OpNode("z", "inc", <<Entry(1, 0)>>, 1, 0)>>,
               <<0>>, <<0, 1, 2, 3>>, <<Entry(2, 0)>>, {I8x1x2}),
      \* the same chain not topologically sorted: each node precedes the
      \* node it reads
      Topology(<<OpNode("z", "inc", <<Entry(1, 0)>>, 1, 0),
                 OpNode("y", "inc", <<Entry(2, 0)>>, 1, 0), NullNode("a")>>,
               <<2>>, <<0, 1, 2, 3>>, <<Entry(0, 0)>>, {I8x2}),
      \* S5: a kernel the code module does not hold
      Topology(<<NullNode("a"), OpNode("y", "nonexistent", <<Entry(0, 0)>>, 1, 0)>>,
               <<0>>, <<0, 1, 2>>, <<Entry(1, 0)>>, {I8x2}),
      \* an op_type that is neither "null" nor "tvm_op"
      Topology(<<NullNode("a"),
                 [OpNode("y", "inc", <<Entry(0, 0)>>, 1, 0) EXCEPT !.op_type = "other"]>>,
               <<0>>, <<0, 1, 2>>, <<Entry(1, 0)>>, {I8x2}),
      \* node_row_ptr gives the kernel one entry, its attributes two outputs
      Topology(<<NullNode("a"), OpNode("y", "inc", <<Entry(0, 0)>>, 2, 0)>>,
               <<0>>, <<0, 1, 2>>, <<Entry(1, 0)>>, {I8x2})
    }

NumEntries(t) == t.node_row_ptr[Len(t.node_row_ptr)]

\* Every plan over the topology's templates and the storage ids 0..MaxSid,
\* and the plans with one reserved (negative) storage id or one dtype that
\* is not byte aligned.
PlanEntries(t) ==
    {[sid |-> s, tm |-> tm] : s \in 0..MaxSid, tm \in t.tmpls}

Plans(t) ==
    LET good == [1..NumEntries(t) -> PlanEntries(t)]
        base == [i \in 1..NumEntries(t) |-> [sid |-> 0, tm |-> I8x2]]
    IN  good
        \cup {[base EXCEPT ![i] = [sid |-> -1, tm |-> I8x2]] : i \in 1..NumEntries(t)}
        \cup {[base EXCEPT ![i] = [sid |-> MaxSid, tm |-> U1x2]] : i \in 1..NumEntries(t)}

Describe(t, plan, keys) ==
    [keys |-> keys,
     nodes |-> t.nodes, arg_nodes |-> t.arg_nodes,
     node_row_ptr |-> t.node_row_ptr, heads |-> t.heads,
     attrs |-> [storage_id |-> [i \in 1..NumEntries(t) |-> plan[i].sid],
                dltype |-> [i \in 1..NumEntries(t) |-> plan[i].tm.dltype],
                shape |-> [i \in 1..NumEntries(t) |-> plan[i].tm.shape]]]

Descriptions ==
    UNION {{Describe(t, plan, AllKeys) : plan \in Plans(t)} : t \in Topologies}
    \cup {Describe(t, [i \in 1..NumEntries(t) |-> [sid |-> 0, tm |-> I8x2]],
                   AllKeys \ {"heads"}) : t \in Topologies}

(***************************************************************************)
(* GraphRuntime::Load and the members it fills.                            *)
(***************************************************************************)
\* Load: the bitmask check that all five top-level keys are present.
Load(json) == json.keys = AllKeys

nodes_ == graph_json.nodes
input_nodes_ == graph_json.arg_nodes
node_row_ptr_ == graph_json.node_row_ptr
outputs_ == graph_json.heads
attrs_ == graph_json.attrs

entry_id(nid, index) == At(node_row_ptr_, nid) + index

num_node_entries == node_row_ptr_[Len(node_row_ptr_)]

num_nodes == Len(nodes_)

(***************************************************************************)
(* GraphRuntime::SetupStorage.                                             *)
(***************************************************************************)
vtype == [i \in 1..Len(attrs_.dltype) |-> String2TVMType(attrs_.dltype[i])]

\* The loop "Find the maximum space size": entries i, i+1, ... are folded
\* into pool_entry_bytes; a negative storage id or a dtype that is not byte
\* aligned is fatal.
RECURSIVE PoolEntryBytes(_, _)
PoolEntryBytes(i, peb) ==
    IF i >= Len(attrs_.shape) THEN [ok |-> TRUE, bytes |-> peb]
    ELSE LET storage_id == At(attrs_.storage_id, i)
             size == Product(At(attrs_.shape, i))
             t == At(vtype, i)
             bits == t.bits * t.lanes
         IN  IF storage_id < 0 \/ bits % 8 # 0
             THEN [ok |-> FALSE, bytes |-> peb]
             ELSE LET bytes == (bits \div 8) * size
                      grown == IF storage_id >= Len(peb)
                               THEN peb \o Fill(storage_id + 1 - Len(peb), 0)
                               ELSE peb
                  IN  PoolEntryBytes(i + 1,
                          [grown EXCEPT ![storage_id + 1] = Max2(@, bytes)])

pool_entry_bytes == PoolEntryBytes(0, <<>>)

\* The extent rounded down instead of up.
PoolShapeRoundsDown(bytes) == bytes \div 4

\* The extent with an empty pool given one element.
PoolShapeAtLeastOne(bytes) == IF bytes = 0 THEN 1 ELSE (bytes + 3) \div 4

\* The extent of the 1-D float32 buffer allocated for a pool of `bytes`.
PoolShape(bytes) == (bytes + 3) \div 4

\* TVMArrayAlloc(shape, 1, kDLFloat, 32, 1, ...): the buffer's byte length.
TVMArrayAlloc(extent) == extent * 4

\* The loop with every entry placed on the first pool buffer.
AssignEntriesFirstPool(pool) ==
    [i \in 1..num_node_entries |->
        [data |-> At(pool, 0),
         ndim |-> Len(attrs_.shape[i]),
         shape |-> attrs_.shape[i],
         dtype |-> vtype[i]]]

\* The loop "Assign the pooled entries", over the pool of handles `pool`.
AssignEntries(pool) ==
    [i \in 1..num_node_entries |->
        [data |-> At(pool, attrs_.storage_id[i]),
         ndim |-> Len(attrs_.shape[i]),
         shape |-> attrs_.shape[i],
         dtype |-> vtype[i]]]

(***************************************************************************)
(* GraphRuntime::SetupOpExecs and CreateTVMOp.                             *)
(***************************************************************************)
\* data_entry_[eid]; an eid past the end reads outside the vector.
EntryView(entries, eid) ==
    IF InRange(entries, eid) THEN At(entries, eid) ELSE WildView

\* The argument vector of node nid: its input entries, then its outputs.
ArgsOf(entries, nid) ==
    LET inode == At(nodes_, nid)
    IN  [k \in 1..Len(inode.inputs) |->
            EntryView(entries, entry_id(inode.inputs[k].node_id,
                                        inode.inputs[k].index))]
        \o [k \in 1..inode.param.num_outputs |->
            EntryView(entries, entry_id(nid, k - 1))]

ArgsInRange(entries, nid) ==
    LET inode == At(nodes_, nid)
    IN  /\ \A k \in 1..Len(inode.inputs) :
             InRange(entries, entry_id(inode.inputs[k].node_id,
                                       inode.inputs[k].index))
        /\ \A k \in 1..inode.param.num_outputs :
             InRange(entries, entry_id(nid, k - 1))

\* The flatten_data rewrite of one argument view of a closure.
FlattenView(t) ==
    IF t = WildView THEN t
    ELSE [t EXCEPT !.ndim = 1, !.shape = <<Product(t.shape)>>]

EmptyExec == [kind |-> "empty", func_name |-> "", args |-> <<>>, num_inputs |-> 0]

\* CreateTVMOp with the lookup in the code module made before the test for
\* "__nop".
CreateTVMOpLooksUpNop(param, args, num_inputs) ==
    LET packed == IF param.flatten_data # 0
                  THEN [k \in 1..Len(args) |-> FlattenView(args[k])]
                  ELSE args
    IN  IF ~ModuleHas(param.func_name)
        THEN [ok |-> FALSE, exec |-> EmptyExec]
        ELSE IF param.func_name = "__nop"
        THEN [ok |-> TRUE,
              exec |-> [kind |-> "nop", func_name |-> "__nop",
                        args |-> <<>>, num_inputs |-> 0]]
        ELSE [ok |-> TRUE,
              exec |-> [kind |-> "kernel", func_name |-> param.func_name,
                        args |-> packed, num_inputs |-> num_inputs]]

\* CreateTVMOp: the closure of one tvm_op node, or a failed lookup.
CreateTVMOp(param, args, num_inputs) ==
    LET packed == IF param.flatten_data # 0
                  THEN [k \in 1..Len(args) |-> FlattenView(args[k])]
                  ELSE args
    IN  IF param.func_name = "__nop"
        THEN [ok |-> TRUE,
              exec |-> [kind |-> "nop", func_name |-> "__nop",
                        args |-> <<>>, num_inputs |-> 0]]
        ELSE IF ~ModuleHas(param.func_name)
        THEN [ok |-> FALSE, exec |-> EmptyExec]
        ELSE [ok |-> TRUE,
              exec |-> [kind |-> "kernel", func_name |-> param.func_name,
                        args |-> packed, num_inputs |-> num_inputs]]

\* The data entries after the closure of node nid was built, had the
\* argument vector referred to the entries themselves: flatten_data then
\* rewrites the entries the node uses.
EntriesFlattenedByBind(entries, nid) ==
    LET inode == At(nodes_, nid)
        used == {entry_id(inode.inputs[k].node_id, inode.inputs[k].index) :
                    k \in 1..Len(inode.inputs)}
                \cup {entry_id(nid, k) : k \in 0..(inode.param.num_outputs - 1)}
    IN  [i \in 1..Len(entries) |->
            IF inode.param.flatten_data # 0 /\ (i - 1) \in used
            THEN FlattenView(entries[i]) ELSE entries[i]]

\* The data entries after the closure of node nid was built: args holds
\* copies of the views (push_back), CreateTVMOp copies them again into the
\* closure's OpArgs and rewrites ndim and the shape pointer of those copies
\* only, so data_entry_ is as before.
EntriesAfterBind(entries, nid) == entries

\* The loop of SetupOpExecs over nodes nid, nid+1, ...
RECURSIVE SetupOpExecs(_, _, _)
SetupOpExecs(entries, nid, execs) ==
    IF nid >= num_nodes
    THEN [ok |-> TRUE, execs |-> execs, entries |-> entries]
    ELSE LET inode == At(nodes_, nid)
         IN  IF inode.op_type = "null"
             THEN SetupOpExecs(entries, nid + 1, execs)
             ELSE IF inode.op_type # "tvm_op"
             THEN [ok |-> FALSE, execs |-> execs, entries |-> entries]
             ELSE LET made == CreateTVMOp(inode.param, ArgsOf(entries, nid),
                                          Len(inode.inputs))
                  IN  IF ~made.ok
                      THEN [ok |-> FALSE, execs |-> execs,
                            entries |-> EntriesAfterBind(entries, nid)]
                      ELSE SetupOpExecs(EntriesAfterBind(entries, nid), nid + 1,
                               [execs EXCEPT ![nid + 1] = made.exec])

\* Whether SetupOpExecs reads data_entry_ out of range before it ends.
RECURSIVE SetupReadsOutside(_, _)
SetupReadsOutside(entries, nid) ==
    IF nid >= num_nodes THEN FALSE
    ELSE LET inode == At(nodes_, nid)
         IN  IF inode.op_type = "null"
             THEN SetupReadsOutside(entries, nid + 1)
             ELSE \/ ~ArgsInRange(entries, nid)
                  \/ /\ inode.op_type = "tvm_op"
                     /\ CreateTVMOp(inode.param, ArgsOf(entries, nid),
                                    Len(inode.inputs)).ok
                     /\ SetupReadsOutside(entries, nid + 1)

(***************************************************************************)
(* ~GraphRuntime and GraphRuntimeCreate.                                   *)
(***************************************************************************)
\* The destructor with its loop started at the second element.
DestructorSkipsFirst(pool, fr) ==
    [h \in DOMAIN fr |->
        fr[h] + Cardinality({k \in 2..Len(pool) : pool[k] = h})]

\* The destructor: one TVMArrayFree per element of storage_pool_.
Destructor(pool, fr) ==
    [h \in DOMAIN fr |->
        fr[h] + Cardinality({k \in 1..Len(pool) : pool[k] = h})]

EmptyBlob == [magic |-> TRUE, names |-> <<>>, count |-> 0, tensors |-> <<>>]

NoLast ==
    [op |-> "none", byname |-> FALSE, idx |-> 0, name |-> "",
     status |-> "ok", warned |-> FALSE, wrote |-> FALSE, view |-> <<>>,
     names |-> <<>>, trace |-> <<>>, blob |-> EmptyBlob, loaded |-> 0]

Init ==
    /\ graph_json \in Descriptions
    /\ phase = "new"
    /\ storage_pool_ = <<>>
    /\ data_entry_ = <<>>
    /\ op_execs_ = <<>>
    /\ mem = <<>>
    /\ freed = <<>>
    /\ ub = FALSE
    /\ last = NoLast

\* Init fails before any allocation: Load, or the checks of the first loop
\* of SetupStorage.  The exception destroys the executor.
CreateFailsEarly ==
    /\ phase = "new"
    /\ ~Load(graph_json) \/ ~pool_entry_bytes.ok
    /\ phase' = "failed"
    /\ last' = [NoLast EXCEPT !.op = "create", !.status = "fatal"]
    /\ UNCHANGED <<graph_json, storage_pool_, data_entry_, op_execs_, mem,
                   freed, ub>>

\* The k-th TVMArrayAlloc fails after k buffers were allocated: TVM_CCALL
\* throws out of Init, and the exception destroys the executor.
CreateAllocFails ==
    /\ phase = "new"
    /\ Load(graph_json) /\ pool_entry_bytes.ok
    /\ \E k \in 0..(Len(pool_entry_bytes.bytes) - 1), fill \in Vals :
         LET pool == [h \in 1..k |-> h]
         IN  /\ storage_pool_' = pool
             /\ mem' = [h \in 1..k |->
                          Fill(TVMArrayAlloc(PoolShape(pool_entry_bytes.bytes[h])), fill)]
             /\ freed' = Destructor(pool, [h \in 1..k |-> 0])
    /\ phase' = "failed"
    /\ last' = [NoLast EXCEPT !.op = "create", !.status = "fatal"]
    /\ UNCHANGED <<graph_json, data_entry_, op_execs_, ub>>

\* Every allocation succeeds; SetupOpExecs then binds the nodes.  A read of
\* data_entry_ out of range is undefined: the build either reads a view
\* that points nowhere and goes on, or crashes.
CreateBinds ==
    /\ phase = "new"
    /\ Load(graph_json) /\ pool_entry_bytes.ok
    /\ \E fill \in Vals, crash \in BOOLEAN :
         LET n == Len(pool_entry_bytes.bytes)
             pool == [h \in 1..n |-> h]
             entries == AssignEntries(pool)
             bound == SetupOpExecs(entries, 0, [k \in 1..num_nodes |-> EmptyExec])
             outside == SetupReadsOutside(entries, 0)
         IN  /\ crash => outside
             /\ storage_pool_' = pool
             /\ mem' = [h \in 1..n |->
                          Fill(TVMArrayAlloc(PoolShape(pool_entry_bytes.bytes[h])), fill)]
             /\ data_entry_' = bound.entries
             /\ op_execs_' = bound.execs
             /\ ub' = outside
             /\ IF crash
                THEN /\ phase' = "crashed"
                     /\ freed' = [h \in 1..n |-> 0]
                     /\ last' = [NoLast EXCEPT !.op = "create", !.status = "ub"]
                ELSE IF bound.ok
                THEN /\ phase' = "ready"
                     /\ freed' = [h \in 1..n |-> 0]
                     /\ last' = [NoLast EXCEPT !.op = "create"]
                ELSE /\ phase' = "failed"
                     /\ freed' = Destructor(pool, [h \in 1..n |-> 0])
                     /\ last' = [NoLast EXCEPT !.op = "create", !.status = "fatal"]
    /\ UNCHANGED graph_json

\* The factory: GraphRuntimeCreate builds the executor and runs Init.
GraphRuntimeCreate == CreateFailsEarly \/ CreateAllocFails \/ CreateBinds

\* The last reference to a constructed executor goes away.
Destroy ==
    /\ phase = "ready"
    /\ phase' = "destroyed"
    /\ freed' = Destructor(storage_pool_, freed)
    /\ last' = [NoLast EXCEPT !.op = "destroy"]
    /\ UNCHANGED <<graph_json, storage_pool_, data_entry_, op_execs_, mem, ub>>

(***************************************************************************)
(* The tensor backend's copy and the code module's kernel.                 *)
(***************************************************************************)
\* TVMArrayCopyFromTo / TVMArrayCopyFromBytes return 0 only when the byte
\* sizes of source and destination agree.
TVMArrayCopyFromTo(from_size, to_size) == from_size = to_size

\* Memory m after `bytes` were copied to the start of the view's buffer.
WriteBytes(m, arr, bytes) ==
    [m EXCEPT ![arr.data] =
        [k \in 1..Len(@) |-> IF k <= Len(bytes) THEN bytes[k] ELSE @[k]]]

RECURSIVE SumSeq(_)
SumSeq(s) == IF s = <<>> THEN 0 ELSE Head(s) + SumSeq(Tail(s))

\* What a kernel reads through a view; through a view that points nowhere
\* it reads an arbitrary byte g.
ReadView(m, arr, g) == IF arr.data = 0 THEN <<g>> ELSE ViewBytes(m, arr)

RECURSIVE WriteOutputs(_, _, _)
WriteOutputs(m, outs, val) ==
    IF outs = <<>> THEN m
    ELSE WriteOutputs(IF Head(outs).data = 0 THEN m
                      ELSE WriteBytes(m, Head(outs),
                                      Fill(GetDataSize(Head(outs)), val)),
                      Tail(outs), val)

\* What a kernel makes of one input argument: its first byte plus the
\* number of its bytes that differ from the first.
Digest(bytes) ==
    IF bytes = <<>> THEN 0
    ELSE bytes[1] + Cardinality({k \in 1..Len(bytes) : bytes[k] # bytes[1]})

\* pf.CallPacked of the kernel "inc": a deterministic kernel that fills each
\* output argument with 1 + the digests of its input arguments.
CallPacked(m, exec, g) ==
    LET ins == SubSeq(exec.args, 1, exec.num_inputs)
        outs == SubSeq(exec.args, exec.num_inputs + 1, Len(exec.args))
        val == (1 + SumSeq([k \in 1..Len(ins) |-> Digest(ReadView(m, ins[k], g))]))
               % (MaxVal + 1)
    IN  WriteOutputs(m, outs, val)

(***************************************************************************)
(* GraphRuntime::Run.                                                      *)
(***************************************************************************)
\* Run with the slots visited from the last to the first.
RECURSIVE RunBackward(_, _, _, _)
RunBackward(m, i, trace, g) ==
    IF i >= Len(op_execs_) THEN [mem |-> m, trace |-> trace]
    ELSE LET slot == Len(op_execs_) - 1 - i
             exec == At(op_execs_, slot)
         IN  IF exec.kind = "empty" THEN RunBackward(m, i + 1, trace, g)
             ELSE RunBackward(IF exec.kind = "kernel" THEN CallPacked(m, exec, g) ELSE m,
                              i + 1, Append(trace, slot), g)

\* The loop of Run from slot i on: `trace` lists the slots invoked so far.
RECURSIVE Run(_, _, _, _)
Run(m, i, trace, g) ==
    IF i >= Len(op_execs_) THEN [mem |-> m, trace |-> trace]
    ELSE LET exec == At(op_execs_, i)
         IN  IF exec.kind = "empty" THEN Run(m, i + 1, trace, g)
             ELSE Run(IF exec.kind = "kernel" THEN CallPacked(m, exec, g) ELSE m,
                      i + 1, Append(trace, i), g)

(***************************************************************************)
(* Inputs and outputs by index and by name.                                *)
(***************************************************************************)
SetMin(S) == CHOOSE x \in S : \A y \in S : x <= y

\* GetInputIndex answering the first input when no node has the name.
GetInputIndexDefaultsToFirst(name) ==
    LET hits == {i \in 0..(Len(input_nodes_) - 1) :
                    At(nodes_, At(input_nodes_, i)).name = name}
    IN  IF hits = {} THEN [index |-> 0, warning |-> TRUE]
        ELSE [index |-> SetMin(hits), warning |-> FALSE]

\* GetInputIndex: the first input whose node has the name, or -1 and a
\* warning.
GetInputIndex(name) ==
    LET hits == {i \in 0..(Len(input_nodes_) - 1) :
                    At(nodes_, At(input_nodes_, i)).name = name}
    IN  IF hits = {} THEN [index |-> -1, warning |-> TRUE]
        ELSE [index |-> SetMin(hits), warning |-> FALSE]

\* static_cast<size_t>(index) of an int; the width is scaled to 30 bits to
\* stay within TLC's integers, every size of the model being far below it.
StaticCastSizeT(index) == index % 1073741824

\* CHECK_LT(static_cast<size_t>(index), size)
CheckIndex(index, size) == StaticCastSizeT(index) < size

\* SetInput(index, data_in): data_in is the caller's view, nbytes bytes all
\* holding val.
SetInput(m, index, data_in) ==
    IF ~CheckIndex(index, Len(input_nodes_))
    THEN [status |-> "fatal", mem |-> m, wrote |-> FALSE]
    ELSE LET eid == entry_id(At(input_nodes_, index), 0)
         IN  IF ~InRange(data_entry_, eid)
             THEN [status |-> "ub", mem |-> m, wrote |-> FALSE]
             ELSE IF ~TVMArrayCopyFromTo(data_in.nbytes,
                                         GetDataSize(At(data_entry_, eid)))
             THEN [status |-> "fatal", mem |-> m, wrote |-> FALSE]
             ELSE [status |-> "ok", wrote |-> TRUE,
                   mem |-> WriteBytes(m, At(data_entry_, eid),
                                      Fill(data_in.nbytes, data_in.val))]

\* The copy of entry eid to a caller's view of nbytes bytes.
CopyOut(m, eid, nbytes) ==
    IF ~InRange(data_entry_, eid)
    THEN [status |-> "ub", wrote |-> FALSE, view |-> <<>>]
    ELSE IF ~TVMArrayCopyFromTo(GetDataSize(At(data_entry_, eid)), nbytes)
    THEN [status |-> "fatal", wrote |-> FALSE, view |-> <<>>]
    ELSE [status |-> "ok", wrote |-> TRUE,
          view |-> ViewBytes(m, At(data_entry_, eid))]

\* GetInput(index, data_out)
GetInput(m, index, nbytes) ==
    IF ~CheckIndex(index, Len(input_nodes_))
    THEN [status |-> "fatal", wrote |-> FALSE, view |-> <<>>]
    ELSE CopyOut(m, entry_id(At(input_nodes_, index), 0), nbytes)

\* GetOutput without its range check: an index out of range copies
\* whatever lies behind the vector.
GetOutputUnchecked(m, index, nbytes) ==
    IF index < 0 \/ index >= Len(outputs_)
    THEN [status |-> "ub", wrote |-> TRUE, view |-> Fill(nbytes, 0)]
    ELSE CopyOut(m, entry_id(At(outputs_, index).node_id,
                             At(outputs_, index).index), nbytes)

\* GetOutput(index, data_out)
GetOutput(m, index, nbytes) ==
    IF ~CheckIndex(index, Len(outputs_))
    THEN [status |-> "fatal", wrote |-> FALSE, view |-> <<>>]
    ELSE CopyOut(m, entry_id(At(outputs_, index).node_id,
                             At(outputs_, index).index), nbytes)

\* nodes_[eid].name as GetInputNames and GetOutputNames read it: the node
\* table indexed by an entry id; past the end the read yields `junk`.
NameAt(eid, junk) ==
    IF InRange(nodes_, eid) THEN At(nodes_, eid).name ELSE junk

GetInputNames(junk) ==
    [k \in 1..Len(input_nodes_) |->
        NameAt(entry_id(input_nodes_[k], 0), junk)]

GetOutputNames(junk) ==
    [k \in 1..Len(outputs_) |->
        NameAt(entry_id(outputs_[k].node_id, outputs_[k].index), junk)]

NamesReadOutside(eids) == \E k \in 1..Len(eids) : ~InRange(nodes_, eids[k])

(***************************************************************************)
(* GraphRuntime::LoadParams and LoadDLTensor.                              *)
(***************************************************************************)
\* LoadDLTensor with the final copy left out.
LoadDLTensorNoCopy(m, tensor, dst) ==
    [ok |-> /\ tensor.magic
            /\ tensor.ndim = dst.ndim
            /\ tensor.dtype = dst.dtype
            /\ tensor.shape = dst.shape
            /\ tensor.data_byte_size = GetDataSize(dst),
     mem |-> m]

\* LoadDLTensor with the loop over the extents left out.
LoadDLTensorNoShapeCheck(m, tensor, dst) ==
    IF ~tensor.magic THEN [ok |-> FALSE, mem |-> m]
    ELSE IF tensor.ndim # dst.ndim THEN [ok |-> FALSE, mem |-> m]
    ELSE IF ~(/\ tensor.dtype.bits = dst.dtype.bits
              /\ tensor.dtype.code = dst.dtype.code
              /\ tensor.dtype.lanes = dst.dtype.lanes)
    THEN [ok |-> FALSE, mem |-> m]
    ELSE IF tensor.data_byte_size # GetDataSize(dst) THEN [ok |-> FALSE, mem |-> m]
    ELSE [ok |-> TRUE,
          mem |-> WriteBytes(m, dst, Fill(tensor.data_byte_size, tensor.val))]

\* LoadDLTensor(strm, dst): one tensor of the blob checked against the
\* planned view dst and copied into it.
LoadDLTensor(m, tensor, dst) ==
    IF ~tensor.magic THEN [ok |-> FALSE, mem |-> m]
    ELSE IF tensor.ndim # dst.ndim THEN [ok |-> FALSE, mem |-> m]
    ELSE IF ~(/\ tensor.dtype.bits = dst.dtype.bits
              /\ tensor.dtype.code = dst.dtype.code
              /\ tensor.dtype.lanes = dst.dtype.lanes)
    THEN [ok |-> FALSE, mem |-> m]
    ELSE IF \E i \in 1..tensor.ndim : tensor.shape[i] # dst.shape[i]
    THEN [ok |-> FALSE, mem |-> m]
    ELSE LET bits == dst.dtype.bits * dst.dtype.lanes
             size == ((bits + 7) \div 8) * Product(dst.shape)
         IN  IF tensor.data_byte_size # size THEN [ok |-> FALSE, mem |-> m]
             ELSE IF ~TVMArrayCopyFromTo(tensor.data_byte_size, GetDataSize(dst))
             THEN [ok |-> FALSE, mem |-> m]
             ELSE [ok |-> TRUE,
                   mem |-> WriteBytes(m, dst, Fill(tensor.data_byte_size, tensor.val))]

\* The loop of LoadParams from tensor i on (0-based).
RECURSIVE LoadTensors(_, _, _)
LoadTensors(m, blob, i) ==
    IF i >= blob.count THEN [status |-> "ok", mem |-> m, loaded |-> i]
    ELSE LET in_idx == GetInputIndex(At(blob.names, i)).index
         IN  IF in_idx < 0 THEN [status |-> "fatal", mem |-> m, loaded |-> i]
             ELSE LET eid == entry_id(At(input_nodes_, in_idx), 0)
                  IN  IF ~(eid < Len(data_entry_)) \/ ~InRange(blob.tensors, i)
                      THEN [status |-> "fatal", mem |-> m, loaded |-> i]
                      ELSE LET r == LoadDLTensor(m, At(blob.tensors, i),
                                                 At(data_entry_, eid))
                           IN  IF ~r.ok
                               THEN [status |-> "fatal", mem |-> m, loaded |-> i]
                               ELSE LoadTensors(r.mem, blob, i + 1)

\* LoadParams that restores the memory it found when a tensor fails.
LoadParamsAtomic(m, blob) ==
    IF ~blob.magic \/ blob.count # Len(blob.names)
    THEN [status |-> "fatal", mem |-> m, loaded |-> 0]
    ELSE LET r == LoadTensors(m, blob, 0)
         IN  IF r.status = "fatal" THEN [r EXCEPT !.mem = m] ELSE r

\* LoadParams(strm): the list header, the names, the count, the tensors.
LoadParams(m, blob) ==
    IF ~blob.magic \/ blob.count # Len(blob.names)
    THEN [status |-> "fatal", mem |-> m, loaded |-> 0]
    ELSE LoadTensors(m, blob, 0)

\* The arguments callers pass: names, caller view sizes and contents, and
\* the names an out-of-range read of the node table may yield.
NameArgs == {"a", "b"}
BlobNames == NameArgs \cup {"k"}
SizeArgs == {2, 4}
CallerViews == {[nbytes |-> n, val |-> v] : n \in SizeArgs, v \in Vals}
JunkNames == {"?", "a"}

\* Parameter blobs: the inputs of load_params.
BytesOf(tm) ==
    LET t == String2TVMType(tm.dltype)
    IN  ((t.bits * t.lanes + 7) \div 8) * Product(tm.shape)

Tensor(tm, v) ==
    [magic |-> TRUE, ndim |-> Len(tm.shape), dtype |-> String2TVMType(tm.dltype),
     shape |-> tm.shape, data_byte_size |-> BytesOf(tm), val |-> v]

\* A tensor planned as int8 [2], and that tensor with one header field off.
Deviations ==
    LET base == Tensor(I8x2, MaxVal)
    IN  {[base EXCEPT !.magic = FALSE],
         [base EXCEPT !.ndim = 2, !.shape = <<1, 2>>],
         [base EXCEPT !.dtype.code = 1],
         [base EXCEPT !.dtype.bits = 16],
         [base EXCEPT !.dtype.lanes = 2],
         [base EXCEPT !.shape = <<3>>, !.data_byte_size = 3],
         [base EXCEPT !.shape = <<3>>],
         [base EXCEPT !.data_byte_size = 3]}

TensorArgs == {Tensor(tm, v) : tm \in {I8x2, F32s}, v \in Vals} \cup Deviations

Blob(names, tensors) ==
    [magic |-> TRUE, names |-> names, count |-> Len(names), tensors |-> tensors]

\* The blobs of n tensors, and the malformed lists: a bad list magic, a
\* count that differs from the number of names, a stream that ends early.
BlobsOfLen(n, tensorSet) ==
    {Blob(names, tensors) : names \in [1..n -> BlobNames],
                            tensors \in [1..n -> tensorSet]}

Malformed ==
    LET one == Blob(<<"a">>, <<Tensor(I8x2, MaxVal)>>)
    IN  {[one EXCEPT !.magic = FALSE], [one EXCEPT !.count = 2],
         [one EXCEPT !.tensors = <<>>]}

ParamBlobs == UNION {BlobsOfLen(n, TensorArgs) : n \in 0..MaxBlob} \cup Malformed

SmallBlobs == BlobsOfLen(1, {Tensor(I8x2, v) : v \in Vals}) \cup Malformed

(***************************************************************************)
(* The packed functions of GetFunction.                                    *)
(***************************************************************************)

Unchanged_exec == UNCHANGED <<graph_json, phase, storage_pool_, data_entry_,
                              op_execs_, freed, ub>>

\* set_input with a string: a lookup miss only warns.
set_input_name ==
    /\ phase = "ready"
    /\ \E name \in NameArgs, src \in CallerViews :
         LET found == GetInputIndex(name)
             r == IF found.index >= 0 THEN SetInput(mem, found.index, src)
                  ELSE [status |-> "ok", mem |-> mem, wrote |-> FALSE]
         IN  /\ mem' = r.mem
             /\ last' = [NoLast EXCEPT !.op = "set_input", !.byname = TRUE,
                            !.name = name, !.status = r.status,
                            !.warned = found.warning, !.wrote = r.wrote]
    /\ Unchanged_exec

set_input_index ==
    /\ phase = "ready"
    /\ \E index \in -1..Len(input_nodes_), src \in CallerViews :
         LET r == SetInput(mem, index, src)
         IN  /\ mem' = r.mem
             /\ last' = [NoLast EXCEPT !.op = "set_input", !.idx = index,
                            !.status = r.status, !.wrote = r.wrote]
    /\ Unchanged_exec

\* get_input with a string that skips a lookup miss as set_input does.
GetInputByNameSkipsMiss(m, name, nbytes) ==
    LET found == GetInputIndex(name)
    IN  IF found.index >= 0 THEN GetInput(m, found.index, nbytes)
        ELSE [status |-> "ok", wrote |-> FALSE, view |-> <<>>]

\* get_input with a string: CHECK_GE(in_idx, 0) follows the lookup.
GetInputByName(m, name, nbytes) ==
    LET found == GetInputIndex(name)
    IN  IF found.index >= 0 THEN GetInput(m, found.index, nbytes)
        ELSE [status |-> "fatal", wrote |-> FALSE, view |-> <<>>]

get_input_name ==
    /\ phase = "ready"
    /\ \E name \in NameArgs, nbytes \in SizeArgs :
         LET r == GetInputByName(mem, name, nbytes)
         IN  last' = [NoLast EXCEPT !.op = "get_input", !.byname = TRUE,
                         !.name = name, !.status = r.status,
                         !.warned = GetInputIndex(name).warning,
                         !.wrote = r.wrote, !.view = r.view]
    /\ UNCHANGED mem
    /\ Unchanged_exec

get_input_index ==
    /\ phase = "ready"
    /\ \E index \in -1..Len(input_nodes_), nbytes \in SizeArgs :
         LET r == GetInput(mem, index, nbytes)
         IN  last' = [NoLast EXCEPT !.op = "get_input", !.idx = index,
                         !.status = r.status, !.wrote = r.wrote, !.view = r.view]
    /\ UNCHANGED mem
    /\ Unchanged_exec

get_output ==
    /\ phase = "ready"
    /\ \E index \in -1..Len(outputs_), nbytes \in SizeArgs :
         LET r == GetOutput(mem, index, nbytes)
         IN  last' = [NoLast EXCEPT !.op = "get_output", !.idx = index,
                         !.status = r.status, !.wrote = r.wrote, !.view = r.view]
    /\ UNCHANGED mem
    /\ Unchanged_exec

get_input_names ==
    /\ phase = "ready"
    /\ \E junk \in JunkNames :
         last' = [NoLast EXCEPT !.op = "get_input_names",
                     !.names = GetInputNames(junk),
                     !.status = IF NamesReadOutside(
                                      [k \in 1..Len(input_nodes_) |->
                                          entry_id(input_nodes_[k], 0)])
                                THEN "ub" ELSE "ok"]
    /\ UNCHANGED mem
    /\ Unchanged_exec

get_output_names ==
    /\ phase = "ready"
    /\ \E junk \in JunkNames :
         last' = [NoLast EXCEPT !.op = "get_output_names",
                     !.names = GetOutputNames(junk),
                     !.status = IF NamesReadOutside(
                                      [k \in 1..Len(outputs_) |->
                                          entry_id(outputs_[k].node_id,
                                                   outputs_[k].index)])
                                THEN "ub" ELSE "ok"]
    /\ UNCHANGED mem
    /\ Unchanged_exec

run ==
    /\ phase = "ready"
    /\ \E g \in (IF ub THEN Vals ELSE {0}) :
         LET r == Run(mem, 0, <<>>, g)
         IN  /\ mem' = r.mem
             /\ last' = [NoLast EXCEPT !.op = "run", !.trace = r.trace]
    /\ Unchanged_exec

LoadParamsCall(blobs) ==
    /\ phase = "ready"
    /\ \E blob \in blobs :
         LET r == LoadParams(mem, blob)
         IN  /\ mem' = r.mem
             /\ last' = [NoLast EXCEPT !.op = "load_params", !.blob = blob,
                            !.status = r.status, !.loaded = r.loaded]
    /\ Unchanged_exec

load_params == LoadParamsCall(SmallBlobs)

Next ==
    \/ CreateFailsEarly
    \/ CreateAllocFails
    \/ CreateBinds
    \/ set_input_name
    \/ set_input_index
    \/ get_input_name
    \/ get_input_index
    \/ get_output
    \/ get_input_names
    \/ get_output_names
    \/ run
    \/ load_params
    \/ Destroy

Spec == Init /\ [][Next]_vars

(***************************************************************************)
(* Parameter loading: the executors with two named inputs, whose first     *)
(* call after construction is load_params with any blob of ParamBlobs.     *)
(***************************************************************************)
ParamDescriptions ==
    {d \in Descriptions :
        /\ Len(d.arg_nodes) = 2
        /\ d.keys = AllKeys
        /\ \A i \in 1..Len(d.attrs.storage_id) :
             d.attrs.storage_id[i] >= 0 /\ d.attrs.dltype[i] # "uint1"}

InitParams ==
    /\ graph_json \in ParamDescriptions
    /\ phase = "new"
    /\ storage_pool_ = <<>>
    /\ data_entry_ = <<>>
    /\ op_execs_ = <<>>
    /\ mem = <<>>
    /\ freed = <<>>
    /\ ub = FALSE
    /\ last = NoLast

load_params_first == last.op = "create" /\ LoadParamsCall(ParamBlobs)

NextParams ==
    \/ CreateBinds
    \/ load_params_first
    \/ get_input_name
    \/ get_input_index
    \/ run

SpecParams == InitParams /\ [][NextParams]_vars

(***************************************************************************)
(* Properties.                                                             *)
(***************************************************************************)
NodeIds == 0..(num_nodes - 1)

NonNullNodes == {nid \in NodeIds : At(nodes_, nid).op_type # "null"}

InputNodeNames ==
    {At(nodes_, At(input_nodes_, i)).name : i \in 0..(Len(input_nodes_) - 1)}

NotTopologicallySorted ==
    \E nid \in NodeIds :
        \E k \in 1..Len(At(nodes_, nid).inputs) :
            At(nodes_, nid).inputs[k].node_id > nid

\* C1: one run() invokes the closure of every non-null node exactly once,
\* in increasing node index, and invokes nothing for a "null" node, also
\* for a description that is not topologically sorted.
C1_RunOrder ==
    last.op = "run" =>
        /\ \A i, j \in 1..Len(last.trace) : i < j => last.trace[i] < last.trace[j]
        /\ {last.trace[i] : i \in 1..Len(last.trace)} = NonNullNodes

C1_Witness ==
    /\ last.op = "run"
    /\ Len(last.trace) = 2
    /\ NotTopologicallySorted
    /\ \E nid \in NodeIds : At(nodes_, nid).op_type = "null"

KernelNodes ==
    {nid \in NodeIds : /\ At(nodes_, nid).op_type = "tvm_op"
                       /\ At(nodes_, nid).param.func_name # "__nop"}

ReadEids(nid) ==
    {entry_id(At(nodes_, nid).inputs[k].node_id, At(nodes_, nid).inputs[k].index) :
        k \in 1..Len(At(nodes_, nid).inputs)}

WriteEids(nid) ==
    {entry_id(nid, k) : k \in 0..(At(nodes_, nid).param.num_outputs - 1)}

PlanSid(eid) == At(attrs_.storage_id, eid)

PlanBytes(eid) ==
    BytesOf([dltype |-> At(attrs_.dltype, eid), shape |-> At(attrs_.shape, eid)])

SetMax(S) == CHOOSE x \in S : \A y \in S : x >= y

\* The longest prefix of pool s that the kernels of `writers` write.
WrittenPrefix(writers, s) ==
    SetMax({0} \cup {PlanBytes(e) : e \in {x \in UNION {WriteEids(m) : m \in writers} :
                                              PlanSid(x) = s}})

\* Every pool byte a kernel reads was written earlier in the same run by a
\* preceding kernel, or is written by no kernel at all.
PlanReadsSettled ==
    \A nid \in KernelNodes :
        \A e \in ReadEids(nid) :
            LET before == WrittenPrefix({m \in KernelNodes : m < nid}, PlanSid(e))
            IN  \/ PlanBytes(e) <= before
                \/ WrittenPrefix(KernelNodes, PlanSid(e)) <= before

\* The contents of the output entries in memory m.
OutputBytes(m) ==
    [k \in 1..Len(outputs_) |->
        ViewBytes(m, At(data_entry_, entry_id(outputs_[k].node_id, outputs_[k].index)))]

\* C2 as stated: after a run(), a second run() with nothing in between
\* leaves every output entry with the same bytes, for every accepted plan.
C2_IdempotentAnyPlan ==
    (phase = "ready" /\ ~ub /\ last.op = "run") =>
        OutputBytes(Run(mem, 0, <<>>, 0).mem) = OutputBytes(mem)

\* C2 amended: the second run() leaves every output entry with the same
\* bytes for the plans in which every pool byte a kernel reads was written
\* earlier in the same run by a preceding kernel or is written by no kernel.
C2_IdempotentSettledPlan ==
    (phase = "ready" /\ ~ub /\ last.op = "run" /\ PlanReadsSettled) =>
        OutputBytes(Run(mem, 0, <<>>, 0).mem) = OutputBytes(mem)

\* A run of two kernels under a settled plan in which the second kernel
\* writes the pool buffer it reads.
C2_Witness ==
    /\ phase = "ready" /\ ~ub /\ last.op = "run" /\ PlanReadsSettled
    /\ Len(last.trace) = 2
    /\ \E nid \in KernelNodes :
         \E r \in ReadEids(nid), w \in WriteEids(nid) : PlanSid(r) = PlanSid(w)
    /\ OutputBytes(mem) # OutputBytes([h \in DOMAIN mem |-> Fill(Len(mem[h]), 0)])

\* The entry that name n resolves to: output 0 of the first input node
\* with that name.
EidOfInputName(n) ==
    entry_id(At(input_nodes_,
                SetMin({i \in 0..(Len(input_nodes_) - 1) :
                           At(nodes_, At(input_nodes_, i)).name = n})), 0)

\* get_input(names[i], y), with y of the tensor's byte size, yields the
\* i-th tensor of the blob.
RoundTrips(blob, i) ==
    LET r == GetInputByName(mem, blob.names[i], blob.tensors[i].data_byte_size)
    IN  /\ r.status = "ok"
        /\ r.view = Fill(blob.tensors[i].data_byte_size, blob.tensors[i].val)

\* C3 as stated: after a load_params that succeeds, every name of the blob
\* reads back its tensor, whatever the blob and the plan.
C3_RoundTripAnyBlob ==
    (last.op = "load_params" /\ last.status = "ok") =>
        \A i \in 1..Len(last.blob.names) : RoundTrips(last.blob, i)

\* C3 amended: after a load_params that succeeds, a name of the blob reads
\* back its tensor when no later tensor of the blob is loaded into an entry
\* with the same storage_id (the same name again, or another input that
\* shares the pool buffer).
C3_RoundTripLastWriter ==
    (last.op = "load_params" /\ last.status = "ok") =>
        \A i \in 1..Len(last.blob.names) :
            (\A j \in (i + 1)..Len(last.blob.names) :
                PlanSid(EidOfInputName(last.blob.names[j]))
                    # PlanSid(EidOfInputName(last.blob.names[i])))
            => RoundTrips(last.blob, i)

\* A blob that lists one name twice with different contents was loaded.
C3_Witness ==
    /\ last.op = "load_params" /\ last.status = "ok"
    /\ Len(last.blob.names) = 2
    /\ last.blob.names[1] = last.blob.names[2]
    /\ last.blob.tensors[1].val # last.blob.tensors[2].val
    /\ RoundTrips(last.blob, 2)

\* C4: every name get_input_names returns is the name of a node listed in
\* input_nodes, so set_input with it resolves to an input index.  (Stated
\* for the calls that read the node table in range.)
C4_NamesAreInputs ==
    (last.op = "get_input_names" /\ last.status = "ok") =>
        \A k \in 1..Len(last.names) :
            /\ last.names[k] \in InputNodeNames
            /\ GetInputIndex(last.names[k]).index >= 0

C6_SetInputMiss ==
    [][(/\ phase = "ready"
        /\ last'.op = "set_input" /\ last'.byname
        /\ last'.name \notin InputNodeNames)
       => /\ last'.status = "ok" /\ ~last'.wrote
          /\ UNCHANGED <<graph_json, phase, storage_pool_, data_entry_,
                         op_execs_, freed, ub>>
          /\ \A h \in DOMAIN mem : mem'[h] = mem[h]
          /\ Run(mem', 0, <<>>, 0) = Run(mem, 0, <<>>, 0)]_vars

C6_Witness ==
    /\ last.op = "set_input" /\ last.byname
    /\ last.name \notin InputNodeNames
    /\ last.warned /\ last.status = "ok"
    /\ KernelNodes # {}

\* C7: set_input(i, v) and get_input(i, v) with i < 0 or i >= |input_nodes|
\* and get_output(i, v) with i < 0 or i >= |outputs| are fatal, and write
\* no data entry and no caller view.
IndexOutOfBounds(call) ==
    /\ ~call.byname
    /\ \/ /\ call.op \in {"set_input", "get_input"}
          /\ call.idx < 0 \/ call.idx >= Len(input_nodes_)
       \/ /\ call.op = "get_output"
          /\ call.idx < 0 \/ call.idx >= Len(outputs_)

C7_IndexOutOfBounds ==
    [][(phase = "ready" /\ IndexOutOfBounds(last'))
       => /\ last'.status = "fatal"
          /\ ~last'.wrote /\ last'.view = <<>>
          /\ mem' = mem]_vars

C7_Witness ==
    /\ last.op = "get_output" /\ last.idx = -1 /\ last.status = "fatal"
    /\ \E h \in DOMAIN mem : \E k \in DOMAIN mem[h] : mem[h][k] # 0

\* C8: pool buffers are allocated during setup only, no packed function
\* allocates or frees one, and every allocated buffer is freed exactly once
\* when the executor is destroyed, also when construction fails after some
\* buffers were allocated.
C8_PoolLifecycle ==
    [][/\ phase' \in {"failed", "destroyed"} =>
            \A h \in DOMAIN freed' : freed'[h] = 1
       /\ phase' = "ready" => \A h \in DOMAIN freed' : freed'[h] = 0
       /\ phase # "new" => DOMAIN freed' = DOMAIN freed
       /\ (phase = "ready" /\ phase' = "ready") =>
            (freed' = freed /\ storage_pool_' = storage_pool_)]_vars

\* Construction failed at an allocation after at least one buffer was
\* allocated, and that buffer was freed.
C8_Witness ==
    /\ phase = "failed"
    /\ Len(storage_pool_) >= 1
    /\ Len(storage_pool_) < Len(pool_entry_bytes.bytes)
    /\ \A h \in DOMAIN freed : freed[h] = 1

\* The entries of the plan mapped to storage id s, and the largest of
\* their byte sizes.
EntriesOfSid(s) == {e \in 0..(num_node_entries - 1) : PlanSid(e) = s}

MaxBytesOfSid(s) == SetMax({0} \cup {PlanBytes(e) : e \in EntriesOfSid(s)})

CeilDiv4(n) == CHOOSE q \in 0..n : 4 * q >= n /\ 4 * q < n + 4

\* The number of 32-bit elements of pool buffer s.
PoolElements(s) == Len(mem[At(storage_pool_, s)]) \div 4

\* C9: after a successful setup the byte size of every entry's view is at
\* most the byte size of its pool buffer, which holds ceil(m/4) 32-bit
\* elements, m the largest byte size among the entries of its storage id.
C9_ViewFitsPool ==
    phase = "ready" =>
        \A e \in 0..(Len(data_entry_) - 1) :
            /\ At(data_entry_, e).data = At(storage_pool_, PlanSid(e))
            /\ GetDataSize(At(data_entry_, e)) = PlanBytes(e)
            /\ PlanBytes(e) <= 4 * PoolElements(PlanSid(e))
            /\ Len(mem[At(storage_pool_, PlanSid(e))]) = 4 * PoolElements(PlanSid(e))
            /\ PoolElements(PlanSid(e)) = CeilDiv4(MaxBytesOfSid(PlanSid(e)))

\* Two entries of different byte sizes share a pool buffer whose largest
\* entry is no multiple of 4 bytes.
C9_Witness ==
    /\ phase = "ready"
    /\ \E e1, e2 \in 0..(Len(data_entry_) - 1) :
         /\ PlanSid(e1) = PlanSid(e2)
         /\ PlanBytes(e1) < PlanBytes(e2)
         /\ PlanBytes(e2) % 4 # 0

\* C10 as stated: a pool whose largest entry has 0 bytes is allocated with
\* exactly 1 element.
C10_EmptyPoolOneElement ==
    phase = "ready" =>
        \A s \in 0..(Len(storage_pool_) - 1) :
            MaxBytesOfSid(s) = 0 => PoolElements(s) = 1

\* C10 amended: a pool whose largest entry has 0 bytes (all its entries are
\* zero-sized, or no entry maps to it) is allocated as a float32 buffer of
\* 0 elements.
C10_EmptyPoolNoElement ==
    phase = "ready" =>
        \A s \in 0..(Len(storage_pool_) - 1) :
            MaxBytesOfSid(s) = 0 => PoolElements(s) = 0

\* A pool that only zero-sized entries map to, beside a pool that no entry
\* maps to.
C10_Witness ==
    /\ phase = "ready"
    /\ \E s \in 0..(Len(storage_pool_) - 1) :
         MaxBytesOfSid(s) = 0 /\ EntriesOfSid(s) # {} /\ PoolElements(s) = 0
    /\ \E s \in 0..(Len(storage_pool_) - 1) :
         EntriesOfSid(s) = {} /\ PoolElements(s) = 0

\* C11: whenever construction succeeds, every output k < num_outputs(n) of
\* every node n has node_row_ptr[n] + k below the total number of entries
\* (the last element of node_row_ptr); a description that violates this is
\* never accepted.
C11_RowPtrCoversOutputs ==
    phase = "ready" =>
        \A nid \in NodeIds :
            \A k \in 0..(At(nodes_, nid).param.num_outputs - 1) :
                At(node_row_ptr_, nid) + k < num_node_entries

\* Whether tensor i (0-based) of the blob is present and names an input
\* whose entry is a data entry.
Resolves(blob, i) ==
    /\ InRange(blob.names, i) /\ InRange(blob.tensors, i)
    /\ At(blob.names, i) \in InputNodeNames
    /\ InRange(data_entry_, EidOfInputName(At(blob.names, i)))

\* The planned view of the entry tensor i is loaded into.
TargetOf(blob, i) == At(data_entry_, EidOfInputName(At(blob.names, i)))

\* The tensor's ndim, dtype or some extent differs from the planned view.
HeaderMismatch(tensor, dst) ==
    \/ tensor.ndim # dst.ndim
    \/ tensor.dtype.code # dst.dtype.code
    \/ tensor.dtype.bits # dst.dtype.bits
    \/ tensor.dtype.lanes # dst.dtype.lanes
    \/ \E d \in DOMAIN tensor.shape \cap DOMAIN dst.shape :
         tensor.shape[d] # dst.shape[d]

\* Memory m after the data of tensors 0..n-1 of the blob were copied, in
\* blob order, into the entries their names resolve to.
RECURSIVE PrefixLoaded(_, _, _)
PrefixLoaded(m, blob, n) ==
    IF n = 0 THEN m
    ELSE WriteBytes(PrefixLoaded(m, blob, n - 1), TargetOf(blob, n - 1),
                    Fill(At(blob.tensors, n - 1).data_byte_size,
                         At(blob.tensors, n - 1).val))

\* C12: load_params is fatal whenever a tensor of the blob differs from the
\* planned ndim, dtype code, bits, lanes or an extent of the entry its name
\* resolves to, and the data of that tensor is not copied: memory holds at
\* most the tensors that precede it.
C12_MismatchIsFatal ==
    [][(phase = "ready" /\ last'.op = "load_params")
       => \A i \in 0..(Len(last'.blob.names) - 1) :
            (Resolves(last'.blob, i)
             /\ HeaderMismatch(At(last'.blob.tensors, i), TargetOf(last'.blob, i)))
            => /\ last'.status = "fatal"
               /\ last'.loaded <= i
               /\ mem' = PrefixLoaded(mem, last'.blob, last'.loaded)]_vars

\* The second tensor of a blob differs from its entry in one extent only,
\* after the first tensor was loaded.
C12_Witness ==
    /\ last.op = "load_params" /\ last.status = "fatal" /\ last.loaded = 1
    /\ Len(last.blob.names) = 2
    /\ Resolves(last.blob, 1)
    /\ At(last.blob.tensors, 1).ndim = TargetOf(last.blob, 1).ndim
    /\ At(last.blob.tensors, 1).dtype = TargetOf(last.blob, 1).dtype
    /\ At(last.blob.tensors, 1).shape # TargetOf(last.blob, 1).shape
    /\ At(last.blob.tensors, 1).data_byte_size = GetDataSize(TargetOf(last.blob, 1))

\* Construction got as far as SetupOpExecs: the description was loaded and
\* every pool buffer allocated.
BindReached ==
    /\ phase \in {"ready", "failed"}
    /\ Load(graph_json) /\ pool_entry_bytes.ok
    /\ Len(storage_pool_) = Len(pool_entry_bytes.bytes)

\* A "tvm_op" node whose kernel the code module does not hold.
UnresolvedKernel(nid) ==
    /\ At(nodes_, nid).op_type = "tvm_op"
    /\ At(nodes_, nid).param.func_name # "__nop"
    /\ ~ModuleHas(At(nodes_, nid).param.func_name)

UnknownOpType(nid) == At(nodes_, nid).op_type \notin {"null", "tvm_op"}

\* What holds of a bind either way: after a failure no packed function is
\* ever served, so no kernel runs; after a success every "__nop" node has
\* a no-op closure, though the code module holds no "__nop", and every
\* other "tvm_op" node a closure over a kernel the module holds.
BindOutcome ==
    /\ phase = "failed" => last.op = "create" /\ last.status = "fatal"
    /\ phase = "ready" =>
         \A nid \in NodeIds :
            At(nodes_, nid).op_type = "tvm_op" =>
                IF At(nodes_, nid).param.func_name = "__nop"
                THEN At(op_execs_, nid).kind = "nop" /\ ~ModuleHas("__nop")
                ELSE /\ At(op_execs_, nid).kind = "kernel"
                     /\ ModuleHas(At(op_execs_, nid).func_name)

\* C13 as stated: construction fails at bind time if and only if kernel
\* resolution fails for some "tvm_op" node.
C13_BindFailsIffLookupFails ==
    BindReached =>
        /\ phase = "failed" <=> \E nid \in NodeIds : UnresolvedKernel(nid)
        /\ BindOutcome

\* C13 amended: construction fails at bind time if and only if some node
\* has an op_type other than "null" and "tvm_op" or kernel resolution fails
\* for some "tvm_op" node.
C13_BindFailsIffUnbindable ==
    BindReached =>
        /\ phase = "failed" <=>
             \E nid \in NodeIds : UnresolvedKernel(nid) \/ UnknownOpType(nid)
        /\ BindOutcome

\* Construction failed at a kernel the module does not hold, in a graph
\* whose op_types are all known.
C13_Witness ==
    /\ BindReached /\ phase = "failed" /\ last.op = "create"
    /\ \E nid \in NodeIds : UnresolvedKernel(nid)
    /\ \A nid \in NodeIds : ~UnknownOpType(nid)

\* The entry ids behind the arguments of node nid: inputs, then outputs.
ArgEids(nid) ==
    [k \in 1..Len(At(nodes_, nid).inputs) |->
        entry_id(At(nodes_, nid).inputs[k].node_id, At(nodes_, nid).inputs[k].index)]
    \o [k \in 1..At(nodes_, nid).param.num_outputs |-> entry_id(nid, k - 1)]

PlanShape(eid) == At(attrs_.shape, eid)

\* A well-formed tensor with the planned dtype and shape of entry eid.
PlannedTensor(eid) ==
    Tensor([dltype |-> At(attrs_.dltype, eid), shape |-> PlanShape(eid)], 0)

\* C14: after construction every view of data_entry_ has the planned ndim
\* and shape of its entry, also when a node with flatten_data uses it: a
\* tensor of the planned shape is accepted for it, the closure of a node
\* without flatten_data holds the planned shape, and only the closure of a
\* node with flatten_data holds the rank-1 view.
C14_FlattenLeavesEntries ==
    phase = "ready" =>
        /\ \A e \in 0..(Len(data_entry_) - 1) :
             /\ At(data_entry_, e).ndim = Len(PlanShape(e))
             /\ At(data_entry_, e).shape = PlanShape(e)
             /\ LoadDLTensor(mem, PlannedTensor(e), At(data_entry_, e)).ok
        /\ \A nid \in KernelNodes :
             \A k \in 1..Len(ArgEids(nid)) :
                InRange(data_entry_, ArgEids(nid)[k]) =>
                    LET arg == At(op_execs_, nid).args[k]
                        planned == PlanShape(ArgEids(nid)[k])
                    IN  IF At(nodes_, nid).param.flatten_data # 0
                        THEN arg.ndim = 1 /\ arg.shape = <<Product(planned)>>
                        ELSE arg.ndim = Len(planned) /\ arg.shape = planned

\* An entry of rank 2 is used by a node with flatten_data and by a node
\* without it.
C14_Witness ==
    /\ phase = "ready" /\ ~ub
    /\ \E n1, n2 \in KernelNodes :
         /\ At(nodes_, n1).param.flatten_data # 0
         /\ At(nodes_, n2).param.flatten_data = 0
         /\ \E k1 \in 1..Len(ArgEids(n1)), k2 \in 1..Len(ArgEids(n2)) :
              /\ ArgEids(n1)[k1] = ArgEids(n2)[k2]
              /\ Len(PlanShape(ArgEids(n1)[k1])) = 2
              /\ At(op_execs_, n1).args[k1].ndim = 1
              /\ At(op_execs_, n2).args[k2].ndim = 2

\* Processing tensor i of the blob fails: its name is no input, the stream
\* ends, or its magic, header or byte size does not fit the planned view.
FailsAt(blob, i) ==
    \/ ~Resolves(blob, i)
    \/ ~At(blob.tensors, i).magic
    \/ HeaderMismatch(At(blob.tensors, i), TargetOf(blob, i))
    \/ At(blob.tensors, i).data_byte_size # PlanBytes(EidOfInputName(At(blob.names, i)))

\* load_params failed at tensor i, the first tensor of the blob that fails,
\* in the step from the unprimed to the primed state.
FailedAtTensor(i) ==
    /\ phase = "ready"
    /\ last'.op = "load_params" /\ last'.status = "fatal"
    /\ last'.blob.magic /\ last'.blob.count = Len(last'.blob.names)
    /\ i = last'.loaded

SidOfTensor(blob, j) == PlanSid(EidOfInputName(At(blob.names, j)))

\* The entry of tensor j holds the blob's value in memory m.
HoldsBlobValue(m, blob, j) ==
    ViewBytes(m, TargetOf(blob, j))
        = Fill(At(blob.tensors, j).data_byte_size, At(blob.tensors, j).val)

\* C15 as stated: when load_params fails at tensor i, the entries of
\* tensors 0..i-1 hold the blob's values and the entries of tensor i and of
\* all later tensors hold what they held before the call.
C15_PartialLoadAnyBlob ==
    [][\A i \in 0..MaxBlob :
        FailedAtTensor(i) =>
          LET blob == last'.blob
          IN  /\ FailsAt(blob, i)
              /\ \A j \in 0..(i - 1) : ~FailsAt(blob, j) /\ HoldsBlobValue(mem', blob, j)
              /\ \A j \in i..(Len(blob.names) - 1) :
                   At(blob.names, j) \in InputNodeNames =>
                       ViewBytes(mem', TargetOf(blob, j)) = ViewBytes(mem, TargetOf(blob, j))]_vars

\* C15 amended: when load_params fails at tensor i, the entry of a tensor
\* j < i holds the blob's value unless a later one of tensors 0..i-1 was
\* loaded into an entry of the same storage_id, and the entry of tensor i
\* or of a later tensor holds what it held before the call unless it
\* shares its storage_id with the entry of one of tensors 0..i-1.
C15_PartialLoadByStorage ==
    [][\A i \in 0..MaxBlob :
        FailedAtTensor(i) =>
          LET blob == last'.blob
          IN  /\ FailsAt(blob, i)
              /\ \A j \in 0..(i - 1) :
                   /\ ~FailsAt(blob, j)
                   /\ (\A k \in (j + 1)..(i - 1) :
                          SidOfTensor(blob, k) # SidOfTensor(blob, j))
                      => HoldsBlobValue(mem', blob, j)
              /\ \A j \in i..(Len(blob.names) - 1) :
                   (/\ At(blob.names, j) \in InputNodeNames
                    /\ \A k \in 0..(i - 1) :
                          SidOfTensor(blob, k) # SidOfTensor(blob, j))
                   => ViewBytes(mem', TargetOf(blob, j)) = ViewBytes(mem, TargetOf(blob, j))
              /\ mem' = PrefixLoaded(mem, blob, i)]_vars

\* load_params failed at its second tensor: the entry of the first holds
\* the blob's value, the entry of the second, in another pool buffer, a
\* different value throughout.
C15_Witness ==
    /\ last.op = "load_params" /\ last.status = "fatal" /\ last.loaded = 1
    /\ Len(last.blob.names) = 2 /\ Len(last.blob.tensors) = 2
    /\ At(last.blob.names, 1) \in InputNodeNames
    /\ SidOfTensor(last.blob, 0) # SidOfTensor(last.blob, 1)
    /\ HoldsBlobValue(mem, last.blob, 0)
    /\ GetDataSize(TargetOf(last.blob, 1)) > 0
    /\ \E f \in Vals \ {At(last.blob.tensors, 0).val} :
         ViewBytes(mem, TargetOf(last.blob, 1)) = Fill(GetDataSize(TargetOf(last.blob, 1)), f)

====
